---- MODULE Spec2Model ----
(***************************************************************************)
(* A model of scripts/ai_code_review.py: the per-commit review pipeline    *)
(* (metadata, skip policy, diff, strategy selection, full or chunked LLM   *)
(* review, issue publication with retries) and the two entry modes of      *)
(* main (push-triggered single commit, scheduled scan).                    *)
(*                                                                         *)
(* Text is modelled as a sequence of lines, a line as a sequence of        *)
(* tokens, and every token has a length in characters, so len(), split,    *)
(* startswith and the "b/" parse are computed and not assumed.             *)
(***************************************************************************)
EXTENDS Integers, Sequences, FiniteSets, TLC

(***************************************************************************)
(* Bounds of the model.                                                    *)
(***************************************************************************)
\* longest file list a commit's metadata carries
MaxFiles == 3
\* most file sections in a fetched diff
MaxDiffFiles == 3
\* most commits listed per repository (MAX_COMMITS_PER_REPO)
MaxCommits == 1
\* largest total_count an issue search reports
MaxCount == 1
\* lines of a diff text given to the partition on its own
MaxLines == 4
\* files of a list given to the ranking on its own
MaxRanked == 5

(***************************************************************************)
(* Configuration values (config.json) and literals of the program.         *)
(***************************************************************************)
LARGE_DIFF_THRESHOLD == 49
MAX_FILES_DETAIL == 3
max_workers == 2
max_retries == 3
MERGE_PARENTS == 1

(***************************************************************************)
(* Strings.                                                                *)
(***************************************************************************)
Letter == <<"a", "b", "c", "d", "e", "f", "g">>

\* len() of one token, in characters
TokLen(t) ==
    CASE t = "diff --git" -> 10
      [] t = " a/" -> 3
      [] t = " b/" -> 3
      [] t = ".py" -> 3
      [] t = ".md" -> 3
      [] t = "docs/" -> 5
      [] t = "+x" -> 2
      [] t = "unknown" -> 7
      [] OTHER -> 1

RECURSIVE StrLen(_)
\* len() of a line
StrLen(s) == IF s = <<>> THEN 0 ELSE TokLen(Head(s)) + StrLen(Tail(s))

RECURSIVE LinesLen(_)
LinesLen(ls) == IF ls = <<>> THEN 0 ELSE StrLen(Head(ls)) + LinesLen(Tail(ls))

\* len() of a text held as its lines: the lines and the newlines between them
TextLen(text) == LinesLen(text) + (Len(text) - 1)

\* s.endswith(suffix)
EndsWith(s, suffix) ==
    /\ Len(suffix) <= Len(s)
    /\ SubSeq(s, Len(s) - Len(suffix) + 1, Len(s)) = suffix

\* pattern in s
Contains(s, pattern) ==
    \E i \in 1..(Len(s) - Len(pattern) + 1) :
        SubSeq(s, i, i + Len(pattern) - 1) = pattern

\* line.startswith('diff --git')
IsMarker(line) == Len(line) > 0 /\ line[1] = "diff --git"

\* line.split(' b/')[-1] if ' b/' in line else 'unknown'
ParseFile(line) ==
    IF \E i \in 1..Len(line) : line[i] = " b/"
    THEN LET last == CHOOSE i \in 1..Len(line) :
                        /\ line[i] = " b/"
                        /\ \A j \in (i + 1)..Len(line) : line[j] # " b/"
         IN SubSeq(line, last + 1, Len(line))
    ELSE <<"unknown">>

(***************************************************************************)
(* Inputs: file lists, commit metadata and diff texts.                     *)
(***************************************************************************)
Min(a, b) == IF a < b THEN a ELSE b

\* additions + deletions of the i-th changed file: not monotonic in i, so that
\* ranking by churn differs from the listing order
Additions(i) == (i * 2) % 5
Deletions(i) == i % 2

CodeName(i) == <<Letter[i], ".py">>
DocName(i) == <<"docs/", Letter[i], ".md">>

\* a FileChange entry of the metadata's 'files' list
FileChange(i, doc) ==
    [filename |-> IF doc THEN DocName(i) ELSE CodeName(i),
     additions |-> Additions(i), deletions |-> Deletions(i)]

\* the file lists metadata may carry: n files, all code or all documentation
FileLists ==
    { [i \in 1..n |-> FileChange(i, doc)] : n \in 0..MaxFiles, doc \in BOOLEAN }

\* commit metadata as get_commit_info returns it: the parsed JSON of the
\* response, with a 'files' list or, for one commit of a single parent,
\* without the key
CommitInfos ==
    [parents : 1..(MERGE_PARENTS + 1), files : FileLists]
        \cup { [parents |-> MERGE_PARENTS] }

MarkerLine(name) == <<"diff --git", " a/">> \o name \o <<" b/">> \o name

\* the section of file i in a unified diff: its marker line and k content lines
Section(i, k) == <<MarkerLine(CodeName(i))>> \o [j \in 1..k |-> <<"+x">>]

RECURSIVE DiffFor(_, _)
\* a unified diff of files 1..n with k content lines each
DiffFor(n, k) == IF n = 0 THEN <<>> ELSE DiffFor(n - 1, k) \o Section(n, k)

\* the empty text: ''.split('\n') is a single empty line
EmptyText == << <<>> >>

\* the texts the diff endpoint may answer with: the empty text, diffs of up
\* to MaxDiffFiles files without hunk lines, and diffs of one and two files
\* with a hunk line each
DiffTexts ==
    {EmptyText} \cup { DiffFor(n, 0) : n \in 1..MaxDiffFiles }
                \cup { DiffFor(1, 1), DiffFor(2, 1) }

(***************************************************************************)
(* should_skip_review                                                      *)
(***************************************************************************)
IGNORED_EXTENSIONS == { <<".md">> }
IGNORED_PATHS == { <<"docs/">> }

IgnoredFile(filename) ==
    \/ \E ext \in IGNORED_EXTENSIONS : EndsWith(filename, ext)
    \/ \E pattern \in IGNORED_PATHS : Contains(filename, pattern)

\* files = commit_info.get('files', [])
Files(commit_info) ==
    IF "files" \in DOMAIN commit_info THEN commit_info.files ELSE <<>>

\* should_skip_review with the merge test left out
should_skip_review_NoMerge(commit_info) ==
    \A i \in 1..Len(Files(commit_info)) :
       IgnoredFile(Files(commit_info)[i].filename)

\* should_skip_review deciding on the first changed file alone
should_skip_review_FirstFile(commit_info) ==
    \/ commit_info.parents > MERGE_PARENTS
    \/ Files(commit_info) = <<>>
    \/ IgnoredFile(Files(commit_info)[1].filename)

\* should_skip_review asking for an ignored file before it skips
should_skip_review_SomeIgnored(commit_info) ==
    \/ commit_info.parents > MERGE_PARENTS
    \/ /\ Files(commit_info) # <<>>
       /\ \A i \in 1..Len(Files(commit_info)) :
             IgnoredFile(Files(commit_info)[i].filename)

should_skip_review(commit_info) ==
    IF commit_info.parents > MERGE_PARENTS
    THEN TRUE
    ELSE \A i \in 1..Len(Files(commit_info)) :
            IgnoredFile(Files(commit_info)[i].filename)

(***************************************************************************)
(* review_large_diff_in_chunks: the pure parts                             *)
(***************************************************************************)
\* one step of the loop over diff_content.split('\n')
GroupStep(st, line) ==
    IF IsMarker(line)
    THEN [file_diffs |->
              IF st.has_file /\ st.current_file # <<>> /\ st.current_diff # <<>>
              THEN Append(st.file_diffs,
                          [fname |-> st.current_file, fdiff |-> st.current_diff])
              ELSE st.file_diffs,
          has_file |-> TRUE,
          current_file |-> ParseFile(line),
          current_diff |-> <<line>>]
    ELSE [st EXCEPT !.current_diff = Append(@, line)]

RECURSIVE GroupLoop(_, _)
GroupLoop(st, lines) ==
    IF lines = <<>> THEN st ELSE GroupLoop(GroupStep(st, Head(lines)), Tail(lines))

\* file_diffs: the (filename, segment) pairs parsed from the diff
GroupByFile(diff_content) ==
    LET st == GroupLoop([file_diffs |-> <<>>, has_file |-> FALSE,
                         current_file |-> <<>>, current_diff |-> <<>>],
                        diff_content)
    IN IF st.has_file /\ st.current_file # <<>> /\ st.current_diff # <<>>
       THEN Append(st.file_diffs,
                   [fname |-> st.current_file, fdiff |-> st.current_diff])
       ELSE st.file_diffs

Churn(f) == f.additions + f.deletions

\* position of files[i] in sorted(files, key=churn, reverse=True): the sort is
\* stable, equal keys keep their listing order
Rank(files, i) ==
    1 + Cardinality({ j \in 1..Len(files) :
                        \/ Churn(files[j]) > Churn(files[i])
                        \/ Churn(files[j]) = Churn(files[i]) /\ j < i })

SortedByChurn(files) ==
    [r \in 1..Len(files) |-> files[CHOOSE i \in 1..Len(files) : Rank(files, i) = r]]

\* the first MAX_FILES_DETAIL files in listing order, unranked
ImportantFiles_Unranked(files) ==
    SubSeq(files, 1, Min(Len(files), MAX_FILES_DETAIL))

\* important_files = sorted(...)[:MAX_FILES_DETAIL]
ImportantFiles(files) ==
    SubSeq(SortedByChurn(files), 1, Min(Len(files), MAX_FILES_DETAIL))

\* review_single_file's lookup: the first segment whose name equals filename
HasSegment(file_diffs, filename) ==
    \E i \in 1..Len(file_diffs) : file_diffs[i].fname = filename

FirstSegment(file_diffs, filename) ==
    file_diffs[CHOOSE i \in 1..Len(file_diffs) :
                  /\ file_diffs[i].fname = filename
                  /\ \A j \in 1..(i - 1) : file_diffs[j].fname # filename].fdiff

\* fdiff[:50000] is non-empty: the file gets an LLM call
FILE_DIFF_LIMIT == 26

NeedsLLM(file_diffs, file_info) ==
    /\ HasSegment(file_diffs, file_info.filename)
    /\ Min(TextLen(FirstSegment(file_diffs, file_info.filename)), FILE_DIFF_LIMIT) > 0


(***************************************************************************)
(* External calls: what each endpoint may answer, and what the function    *)
(* that makes the call turns the answer into.                              *)
(***************************************************************************)
None == [kind |-> "None"]

\* requests.get of a commit's metadata
InfoResponses ==
    {[kind |-> "transport"], [kind |-> "status"]}
        \cup { [kind |-> "ok", json |-> ci] : ci \in CommitInfos }

\* get_commit_info: a transport error is not caught here
get_commit_info(resp) ==
    CASE resp.kind = "ok" -> [raised |-> FALSE, none |-> FALSE, value |-> resp.json]
      [] resp.kind = "status" -> [raised |-> FALSE, none |-> TRUE, value |-> None]
      [] OTHER -> [raised |-> TRUE, none |-> TRUE, value |-> None]

\* requests.get of a commit's diff
DiffResponses ==
    {[kind |-> "transport"], [kind |-> "status"]}
        \cup { [kind |-> "ok", text |-> t] : t \in DiffTexts }

\* get_commit_diff: a transport error is not caught here
get_commit_diff(resp) ==
    CASE resp.kind = "ok" -> [raised |-> FALSE, none |-> FALSE, value |-> resp.text]
      [] resp.kind = "status" -> [raised |-> FALSE, none |-> TRUE, value |-> None]
      [] OTHER -> [raised |-> TRUE, none |-> TRUE, value |-> None]

\* what the completion endpoint may answer
LLMResponses == {"choices", "no_choices", "bad_body", "status", "transport"}

\* the text the model generates for a prompt
Reply(prompt) == [reply_to |-> prompt]

\* call_llm_api: ok is a return, ~ok is LLMAPIError; the value returned is
\* result['choices'][0]['message']['content'], None when the content is null
call_llm_api(prompt, resp) ==
    CASE resp = "choices" -> [ok |-> TRUE, text |-> Reply(prompt)]
      [] resp = "null_content" -> [ok |-> TRUE, text |-> None]
      [] OTHER -> [ok |-> FALSE, text |-> None]

\* what the issue search may answer
SearchResponses ==
    {[kind |-> "transport"], [kind |-> "status"], [kind |-> "bad_body"]}
        \cup { [kind |-> "ok", total_count |-> n] : n \in 0..MaxCount }

\* a lookup that takes a failed search for a match
has_been_reviewed_FailClosed(resp) ==
    IF resp.kind = "ok" THEN resp.total_count > 0 ELSE TRUE

\* has_been_reviewed
has_been_reviewed(resp) ==
    IF resp.kind = "ok" THEN resp.total_count > 0 ELSE FALSE

\* what GET /user may answer to the token test; scopes is the X-OAuth-Scopes
\* header (absent for a fine-grained token)
TokenResponses ==
    {[kind |-> "transport"], [kind |-> "status"],
     [kind |-> "ok", scopes |-> "absent"],
     [kind |-> "ok", scopes |-> "repo"],
     [kind |-> "ok", scopes |-> "other"]}

\* a token test that does not look at the scopes
test_github_token_permissions_NoScopes(resp) == resp.kind = "ok"

\* test_github_token_permissions
test_github_token_permissions(resp) ==
    /\ resp.kind = "ok"
    /\ resp.scopes # "other"

\* what the commit listing may answer: n commits, a failure, or a success
\* whose entry lacks the fields of a commit
ListResponses ==
    {[kind |-> "transport"], [kind |-> "status"], [kind |-> "malformed"]}
        \cup { [kind |-> "ok", n |-> n] : n \in 0..MaxCommits }

\* a listed entry without the fields of a commit
MalformedCommit == [kind |-> "malformed"]

\* get_recent_commits_from_repo: the commits of the repository, [] on failure
get_recent_commits_from_repo(repo_name, resp) ==
    IF resp.kind = "ok"
    THEN [k \in 1..resp.n |-> [repo |-> repo_name, commit_sha |-> k]]
    ELSE IF resp.kind = "malformed" THEN <<MalformedCommit>>
    ELSE <<>>

\* what the issue creation may answer: a transport error, 201 with the created
\* issue, 403 with or without a body that parses as a JSON object (a proxy or
\* the platform's edge answers 403 with an HTML page), or another status
IssueResponses ==
    {[kind |-> "transport", json |-> FALSE], [kind |-> "other", json |-> FALSE],
     [kind |-> "created", json |-> TRUE],
     [kind |-> "forbidden", json |-> TRUE], [kind |-> "forbidden", json |-> FALSE]}

\* an attempt that takes any answer with a body for a refusal
IssueAttempt_AnyBodyRefused(resp) ==
    CASE resp.json -> "return_false"
      [] OTHER -> "retry"

\* one pass of the retry loop's body: what the handler does with a response
\*   "return_true" / "return_false": the function returns at once
\*   "retry": the attempt failed (status or exception)
\*            response.json() raises inside the try block when the body does
\*            not parse, and the except clause treats it like any exception
IssueAttempt(resp) ==
    CASE resp.kind = "created" /\ resp.json -> "return_true"
      [] resp.kind = "forbidden" /\ resp.json -> "return_false"
      [] OTHER -> "retry"

\* time.sleep(2 ** attempt)
RECURSIVE Pow2(_)
Pow2(n) == IF n = 0 THEN 1 ELSE 2 * Pow2(n - 1)


(***************************************************************************)
(* State.                                                                  *)
(***************************************************************************)
VARIABLES
    SCAN_HOURS,             \* environment: set on a scheduled run
    GITHUB_REPOSITORY,      \* environment: the repository the run is in
    ENABLED_REPOS,          \* ProjectConfig.ENABLED_REPOS
    original_enabled_repos, \* main: the list saved before the scan
    pc,                     \* where the main thread is
    scan_repos,             \* scan: repositories still to list
    listed,                 \* scan: listed commits still to look up
    search_resp,            \* has_been_reviewed: the answer of the issue search
    reviewed,               \* scan: what has_been_reviewed returned
    pending_reviews,        \* the review queue
    next_review,            \* main: index of the queue entry in hand
    successful_reviews,     \* main: the success counter
    commit_data,            \* review_single_commit: its argument
    commit_info,            \* review_single_commit: the metadata fetched
    diff_content,           \* review_single_commit: the diff fetched
    strategy,               \* "none", "full" or "chunked"
    review_result,          \* the report
    rsc_result,             \* what review_single_commit ended with
    chunk_file_diffs,       \* chunked: file_diffs, the segments parsed from the diff
    overview_analysis,      \* chunked: the overview narrative
    important_files,        \* chunked: the files reviewed in detail
    tasks,                  \* chunked: the state of each submitted future
    worker,                 \* chunked: the task each pool thread runs, 0 if idle
    fin_set,                \* as_completed: futures finished when it was called
    fin_seq,                \* as_completed: futures finished since, in order
    detailed_reviews,       \* chunked: the sections collected
    completed,              \* chunked: the futures in the order they finished,
                            \* while the loop over as_completed is to run or runs
    done_at_call,           \* chunked: how many had finished when as_completed
                            \* was called
    pauses,                 \* chunked: the time.sleep(0.5) calls made
    late_calls,             \* chunked: per-file LLM calls begun after result() raised
    attempt,                \* create_review_issue: the loop variable
    responses,              \* create_review_issue: the answers received
    backoffs,               \* create_review_issue: the delays slept
    stdout_report,          \* the report text printed by the console fallback
    issue_calls,            \* calls of create_review_issue for the commit in hand
    llm_calls,              \* LLM calls started for the commit in hand, by kind
    llm_failed,             \* LLM calls of the commit in hand that raised LLMAPIError
    not_reviewed,           \* the commits has_been_reviewed answered False for
    config_enabled_repos,   \* the enabled_repos list of config.json, as loaded
    token_resp,             \* test_github_token_permissions: the answer of GET /user
    token_ok,               \* scan: "none", or what the token test returned
    started,                \* the commits review_single_commit was called for
    paced,                  \* main: time.sleep(1) ran after the last review
    unit_fn,                \* the function called on its own, "none" in a run of main
    unit_in,                \* its argument
    unit_done,              \* it has returned
    unit_out                \* what it returned

env_vars == <<SCAN_HOURS, GITHUB_REPOSITORY, config_enabled_repos>>
hist_vars == <<token_resp, token_ok, started, paced>>
unit_vars == <<unit_fn, unit_in, unit_done, unit_out>>
scan_vars == <<scan_repos, listed, search_resp, reviewed, pending_reviews,
               next_review, successful_reviews, not_reviewed>>
commit_vars == <<commit_data, commit_info, diff_content, strategy, review_result,
                 rsc_result, llm_calls, llm_failed>>
chunk_vars == <<chunk_file_diffs, overview_analysis, important_files, tasks, worker, fin_set, fin_seq,
                detailed_reviews, completed, done_at_call, pauses, late_calls>>
pub_vars == <<attempt, responses, backoffs, stdout_report, issue_calls>>
vars == <<env_vars, hist_vars, unit_vars, ENABLED_REPOS, original_enabled_repos, pc, scan_vars,
          commit_vars, chunk_vars, pub_vars>>

Repos == {"r1", "r2"}
NoRepo == "none"

\* the runs: a push to r1, a scheduled run in r1, and a scheduled run outside
\* a repository, each with the enabled_repos lists of config.json that make
\* its cases happen (the configuration check accepts a list that names a
\* repository twice)
Runs ==
    ({FALSE} \X {"r1"} \X { <<"r1", "r2">>, <<"r2">>, <<"*">> })
        \cup ({TRUE} \X {"r1"} \X { <<"r1", "r2">>, <<"r1">>, <<"*", "r1">>,
                                    <<"r1", "r1">> })
        \cup ({TRUE} \X {NoRepo} \X { <<"r1", "r2">>, <<"*">>, <<"r1", "*">> })

\* a pool with one thread more
Workers_OneMore == 1..(max_workers + 1)

\* the threads of ThreadPoolExecutor(max_workers=2)
Workers == 1..max_workers

NoCalls == [full |-> 0, overview |-> 0, file |-> 0]

\* the locals of one review_single_commit call, before it starts
CommitReset ==
    /\ commit_info = None
    /\ diff_content = EmptyText
    /\ strategy = "none"
    /\ review_result = None
    /\ rsc_result = "none"
    /\ llm_calls = NoCalls
    /\ llm_failed = 0
    /\ chunk_file_diffs = <<>>
    /\ overview_analysis = None
    /\ important_files = <<>>
    /\ tasks = <<>>
    /\ worker = [w \in Workers |-> 0]
    /\ fin_set = {}
    /\ fin_seq = <<>>
    /\ detailed_reviews = <<>>
    /\ completed = <<>>
    /\ done_at_call = 0
    /\ pauses = 0
    /\ late_calls = 0
    /\ attempt = 0
    /\ responses = <<>>
    /\ backoffs = <<>>
    /\ stdout_report = None
    /\ issue_calls = 0

\* the same, as the effect of leaving a call
ResetCommit ==
    /\ commit_info' = None
    /\ diff_content' = EmptyText
    /\ strategy' = "none"
    /\ review_result' = None
    /\ rsc_result' = "none"
    /\ llm_calls' = NoCalls
    /\ llm_failed' = 0
    /\ chunk_file_diffs' = <<>>
    /\ overview_analysis' = None
    /\ important_files' = <<>>
    /\ tasks' = <<>>
    /\ worker' = [w \in Workers |-> 0]
    /\ fin_set' = {}
    /\ fin_seq' = <<>>
    /\ detailed_reviews' = <<>>
    /\ completed' = <<>>
    /\ done_at_call' = 0
    /\ pauses' = 0
    /\ late_calls' = 0
    /\ attempt' = 0
    /\ responses' = <<>>
    /\ backoffs' = <<>>
    /\ stdout_report' = None
    /\ issue_calls' = 0

Init ==
    /\ \E run \in Runs :
          /\ SCAN_HOURS = run[1]
          /\ GITHUB_REPOSITORY = run[2]
          /\ ENABLED_REPOS = run[3]
          /\ config_enabled_repos = run[3]
    /\ token_resp = None
    /\ token_ok = "none"
    /\ started = <<>>
    /\ paced = FALSE
    /\ unit_fn = "none"
    /\ unit_in = None
    /\ unit_done = FALSE
    /\ unit_out = None
    /\ original_enabled_repos = <<>>
    /\ pc = "main"
    /\ scan_repos = <<>>
    /\ listed = <<>>
    /\ search_resp = None
    /\ reviewed = FALSE
    /\ pending_reviews = <<>>
    /\ next_review = 0
    /\ successful_reviews = 0
    /\ not_reviewed = {}
    /\ commit_data = None
    /\ CommitReset


(***************************************************************************)
(* main and scan_all_enabled_repos                                         *)
(***************************************************************************)
Elems(list) == { list[i] : i \in 1..Len(list) }

is_repo_enabled(repo_name) ==
    "*" \in Elems(ENABLED_REPOS) \/ repo_name \in Elems(ENABLED_REPOS)

\* list.remove(x): the list without the first occurrence of x
Remove(list, x) ==
    IF x \in Elems(list)
    THEN LET first == CHOOSE i \in 1..Len(list) :
                         list[i] = x /\ \A j \in 1..(i - 1) : list[j] # x
         IN SubSeq(list, 1, first - 1) \o SubSeq(list, first + 1, Len(list))
    ELSE list

\* the push-triggered mode is taken
PushMode == ~SCAN_HOURS /\ GITHUB_REPOSITORY # NoRepo

\* the list object ProjectConfig.ENABLED_REPOS names once main has taken the
\* current repository out of it, the removal being made in place
ObjectAfterRemove_InPlace(list, x) == Remove(list, x)

\* the list object ProjectConfig.ENABLED_REPOS names once
\* enabled_repos.remove(current_repo) ran: the removal is made on a copy
ObjectAfterRemove(list, x) == list

\* main, up to the first external call
Main ==
    /\ pc = "main"
    /\ IF PushMode
       THEN /\ IF is_repo_enabled(GITHUB_REPOSITORY)
               THEN /\ commit_data' = [repo |-> GITHUB_REPOSITORY, commit_sha |-> 1]
                    /\ started' = <<[repo |-> GITHUB_REPOSITORY, commit_sha |-> 1]>>
                    /\ pc' = "rsc_info"
               ELSE /\ pc' = "done"
                    /\ UNCHANGED <<commit_data, started>>
            /\ UNCHANGED <<ENABLED_REPOS, original_enabled_repos>>
       ELSE LET enabled_repos == Remove(ENABLED_REPOS, GITHUB_REPOSITORY)
                original == ObjectAfterRemove(ENABLED_REPOS, GITHUB_REPOSITORY)
            IN /\ IF enabled_repos = <<>>
                  THEN /\ pc' = "done"
                       /\ ENABLED_REPOS' = original
                       /\ UNCHANGED original_enabled_repos
                  ELSE /\ original_enabled_repos' = original
                       /\ ENABLED_REPOS' = enabled_repos
                       /\ pc' = "scan_token"
               /\ UNCHANGED <<commit_data, started>>
    /\ UNCHANGED <<env_vars, unit_vars, token_resp, token_ok, paced, scan_vars, commit_info,
                   diff_content, strategy, review_result, rsc_result, llm_calls,
                   llm_failed, chunk_vars, pub_vars>>

\* scan_all_enabled_repos has returned queue: main's check of it, and the
\* finally block when main returns
ScanReturn(queue) ==
    IF queue = <<>>
    THEN /\ pc' = "done"
         /\ ENABLED_REPOS' = original_enabled_repos
         /\ UNCHANGED <<next_review, successful_reviews>>
    ELSE /\ pc' = "loop"
         /\ next_review' = 1
         /\ successful_reviews' = 0
         /\ UNCHANGED ENABLED_REPOS

\* scan_all_enabled_repos calls test_github_token_permissions, which returns
ScanToken ==
    /\ pc = "scan_token"
    /\ \E resp \in TokenResponses :
          /\ token_resp' = resp
          /\ token_ok' = IF test_github_token_permissions(resp) THEN "passed"
                         ELSE "failed"
    /\ pc' = "scan_start"
    /\ UNCHANGED <<env_vars, unit_vars, started, paced, ENABLED_REPOS, original_enabled_repos,
                   scan_vars, commit_vars, chunk_vars, pub_vars>>

\* a wildcard check that sees the wildcard only when it is the whole list
WildcardMode_Alone(enabled_repos) == enabled_repos = <<"*">>

\* if "*" in enabled_repos
WildcardMode(enabled_repos) == "*" \in Elems(enabled_repos)

\* scan_all_enabled_repos: the return on a failed token test and the
\* wildcard check
ScanStart ==
    /\ pc = "scan_start"
    /\ IF token_ok # "passed" \/ WildcardMode(ENABLED_REPOS)
       THEN /\ ScanReturn(<<>>)
            /\ UNCHANGED scan_repos
       ELSE /\ scan_repos' = ENABLED_REPOS
            /\ pc' = "scan_list"
            /\ UNCHANGED <<ENABLED_REPOS, next_review, successful_reviews>>
    /\ token_resp' = None
    /\ UNCHANGED <<env_vars, unit_vars, token_ok, started, paced, original_enabled_repos, listed,
                   search_resp, reviewed, pending_reviews, not_reviewed, commit_vars,
                   chunk_vars, pub_vars>>

\* where the scan goes once a listing or a lookup is done
ScanStep(left, repos, queue) ==
    IF left # <<>>
    THEN /\ pc' = "scan_dedup"
         /\ UNCHANGED <<ENABLED_REPOS, next_review, successful_reviews>>
    ELSE IF repos # <<>>
    THEN /\ pc' = "scan_list"
         /\ UNCHANGED <<ENABLED_REPOS, next_review, successful_reviews>>
    ELSE ScanReturn(queue)

\* scan_all_enabled_repos: the commits of the next repository are listed
ScanList ==
    /\ pc = "scan_list"
    /\ scan_repos # <<>>
    /\ \E resp \in ListResponses :
          LET commits == get_recent_commits_from_repo(Head(scan_repos), resp)
          IN /\ listed' = commits
             /\ scan_repos' = Tail(scan_repos)
             /\ ScanStep(commits, Tail(scan_repos), pending_reviews)
    /\ UNCHANGED <<env_vars, unit_vars, hist_vars, original_enabled_repos, search_resp, reviewed,
                   pending_reviews, not_reviewed, commit_vars, chunk_vars, pub_vars>>

\* a scan that queues every listed commit
ShouldQueue_Always(was_reviewed) == TRUE

\* if not has_been_reviewed(...): the commit is queued
ShouldQueue(was_reviewed) == ~was_reviewed

\* scan_all_enabled_repos reads the fields of the next listed commit, which
\* raises out of the scan and through main's finally block when the entry
\* lacks them; has_been_reviewed is then called and returns
ScanSearch ==
    /\ pc = "scan_dedup"
    /\ listed # <<>>
    /\ IF Head(listed) = MalformedCommit
       THEN /\ pc' = "crashed"
            /\ ENABLED_REPOS' = original_enabled_repos
            /\ UNCHANGED <<search_resp, reviewed>>
       ELSE /\ \E resp \in SearchResponses :
                  /\ search_resp' = resp
                  /\ reviewed' = has_been_reviewed(resp)
            /\ pc' = "scan_queue"
            /\ UNCHANGED ENABLED_REPOS
    /\ UNCHANGED <<env_vars, unit_vars, hist_vars, original_enabled_repos, scan_repos, listed,
                   pending_reviews, next_review, successful_reviews, not_reviewed,
                   commit_vars, chunk_vars, pub_vars>>

\* scan_all_enabled_repos: the commit is queued unless it was reviewed
ScanQueue ==
    /\ pc = "scan_queue"
    /\ LET commit == Head(listed)
           queue == IF ShouldQueue(reviewed) THEN Append(pending_reviews, commit)
                    ELSE pending_reviews
       IN /\ not_reviewed' =
                 IF reviewed THEN not_reviewed ELSE not_reviewed \cup {commit}
          /\ pending_reviews' = queue
          /\ listed' = Tail(listed)
          /\ ScanStep(Tail(listed), scan_repos, queue)
    /\ search_resp' = None
    /\ reviewed' = FALSE
    /\ UNCHANGED <<env_vars, unit_vars, hist_vars, original_enabled_repos, scan_repos, commit_vars,
                   chunk_vars, pub_vars>>

\* main: the head of the loop over pending_reviews
MainLoop ==
    /\ pc = "loop"
    /\ IF next_review <= Len(pending_reviews)
       THEN /\ commit_data' = pending_reviews[next_review]
            /\ started' = Append(started, pending_reviews[next_review])
            /\ paced' = FALSE
            /\ pc' = "rsc_info"
            /\ UNCHANGED ENABLED_REPOS
       ELSE /\ pc' = "done"
            /\ ENABLED_REPOS' = original_enabled_repos
            /\ UNCHANGED <<commit_data, started, paced>>
    /\ UNCHANGED <<env_vars, unit_vars, token_resp, token_ok, original_enabled_repos, scan_vars,
                   commit_info, diff_content, strategy, review_result, rsc_result,
                   llm_calls, llm_failed, chunk_vars, pub_vars>>

\* a loop without the except clause: the exception leaves main
AfterCommit_Propagate(result) == IF result = "raised" THEN "crashed" ELSE "loop"

\* main's loop body once review_single_commit has ended with result: a
\* return value is counted, an exception is caught by except Exception, and
\* the loop goes on either way
AfterCommit(result) == "loop"

\* a counter of the commits that were published
Counted_Published(result) == result = "true" /\ issue_calls > 0

\* if review_single_commit(commit_data): successful_reviews += 1
Counted(result) == result = "true"

\* main: review_single_commit has returned or raised; its locals are gone.
\* In the scan loop time.sleep(1) follows a return; the except clause
\* continues without it.
AfterReview ==
    /\ pc = "rsc_ret"
    /\ IF PushMode
       THEN /\ pc' = IF rsc_result = "raised" THEN "crashed" ELSE "done"
            /\ UNCHANGED <<next_review, successful_reviews, paced, ENABLED_REPOS>>
       ELSE /\ successful_reviews' =
                   IF Counted(rsc_result) THEN successful_reviews + 1
                   ELSE successful_reviews
            /\ next_review' = next_review + 1
            /\ paced' = (rsc_result # "raised")
            /\ pc' = AfterCommit(rsc_result)
            /\ ENABLED_REPOS' = IF AfterCommit(rsc_result) = "crashed"
                                THEN original_enabled_repos ELSE ENABLED_REPOS
    /\ ResetCommit
    /\ UNCHANGED <<env_vars, unit_vars, token_resp, token_ok, started, original_enabled_repos,
                   scan_repos, listed, search_resp, reviewed, pending_reviews,
                   not_reviewed, commit_data>>


(***************************************************************************)
(* review_single_commit                                                    *)
(***************************************************************************)
\* review_single_commit ends: it returns True or False, or an exception
\* leaves it
Return(result) ==
    /\ rsc_result' = result
    /\ pc' = "rsc_ret"

\* the strategy with the threshold itself counted as large
ChooseStrategy_AtThreshold(diff) ==
    IF TextLen(diff) >= LARGE_DIFF_THRESHOLD THEN "chunked" ELSE "full"

\* the strategy chosen for a diff
ChooseStrategy(diff) ==
    IF TextLen(diff) > LARGE_DIFF_THRESHOLD THEN "chunked" ELSE "full"

\* get_commit_info and should_skip_review
GetInfo ==
    /\ pc = "rsc_info"
    /\ \E resp \in InfoResponses :
          LET r == get_commit_info(resp)
          IN IF r.raised
             THEN Return("raised") /\ UNCHANGED commit_info
             ELSE IF r.none
             THEN Return("false") /\ UNCHANGED commit_info
             ELSE /\ commit_info' = r.value
                  /\ IF should_skip_review(r.value)
                     THEN Return("true")
                     ELSE pc' = "rsc_diff" /\ UNCHANGED rsc_result
    /\ UNCHANGED <<env_vars, unit_vars, hist_vars, ENABLED_REPOS, original_enabled_repos, scan_vars,
                   commit_data, diff_content, strategy, review_result, llm_calls,
                   llm_failed, chunk_vars, pub_vars>>

\* get_commit_diff and the choice of the strategy; the chunked strategy
\* starts by grouping the diff by files
GetDiff ==
    /\ pc = "rsc_diff"
    /\ \E resp \in DiffResponses :
          LET r == get_commit_diff(resp)
          IN IF r.raised
             THEN Return("raised") /\ UNCHANGED <<diff_content, strategy, chunk_file_diffs>>
             ELSE IF r.none \/ TextLen(r.value) = 0
             THEN Return("false") /\ UNCHANGED <<diff_content, strategy, chunk_file_diffs>>
             ELSE /\ diff_content' = r.value
                  /\ strategy' = ChooseStrategy(r.value)
                  /\ pc' = IF ChooseStrategy(r.value) = "chunked"
                           THEN "chunk_overview" ELSE "full_llm"
                  /\ chunk_file_diffs' = IF ChooseStrategy(r.value) = "chunked"
                                          THEN GroupByFile(r.value) ELSE <<>>
                  /\ UNCHANGED rsc_result
    /\ UNCHANGED <<env_vars, unit_vars, hist_vars, ENABLED_REPOS, original_enabled_repos, scan_vars,
                   commit_data, commit_info, review_result, llm_calls, llm_failed,
                   overview_analysis, important_files, tasks, worker, fin_set,
                   fin_seq, detailed_reviews, completed, done_at_call, pauses, late_calls,
                   pub_vars>>

MAX_DIFF_SIZE == 30

\* a prompt that embeds the whole diff
FullPrompt_Untruncated(diff, info) ==
    [kind |-> "full", shown |-> TextLen(diff), note |-> FALSE]

\* generate_review_prompt: the prompt shows diff_content[:max_diff_size] and
\* carries the note when the diff is longer
FullPrompt(diff, info) ==
    [kind |-> "full",
     shown |-> Min(TextLen(diff), MAX_DIFF_SIZE),
     note |-> TextLen(diff) > Min(TextLen(diff), MAX_DIFF_SIZE)]

\* review_code_with_llm
FullReview ==
    /\ pc = "full_llm"
    /\ llm_calls' = [llm_calls EXCEPT !.full = @ + 1]
    /\ \E resp \in LLMResponses :
          LET r == call_llm_api(FullPrompt(diff_content, commit_info), resp)
          IN IF r.ok
             THEN /\ review_result' = r.text
                  /\ issue_calls' = issue_calls + 1
                  /\ pc' = "pub_info"
                  /\ UNCHANGED <<rsc_result, llm_failed>>
             ELSE /\ Return("false")
                  /\ llm_failed' = llm_failed + 1
                  /\ UNCHANGED <<review_result, issue_calls>>
    /\ UNCHANGED <<env_vars, unit_vars, hist_vars, ENABLED_REPOS, original_enabled_repos, scan_vars,
                   commit_data, commit_info, diff_content, strategy, chunk_vars,
                   attempt, responses, backoffs, stdout_report>>

(***************************************************************************)
(* review_large_diff_in_chunks                                             *)
(***************************************************************************)
RECURSIVE SumOf(_, _)
SumOf(files, field) ==
    IF files = <<>> THEN 0 ELSE Head(files)[field] + SumOf(Tail(files), field)

OverviewPrompt(info) ==
    [kind |-> "overview",
     n_files |-> Len(info.files),
     total_additions |-> SumOf(info.files, "additions"),
     total_deletions |-> SumOf(info.files, "deletions")]

\* the prompt review_single_file builds for an important file with a segment
FilePrompt(file_diffs, file_info) ==
    [kind |-> "file",
     filename |-> file_info.filename,
     shown |-> Min(TextLen(FirstSegment(file_diffs, file_info.filename)),
                   FILE_DIFF_LIMIT)]

\* the section review_single_file returns
FileSection(file_diffs, file_info) ==
    [filename |-> file_info.filename,
     file_review |-> Reply(FilePrompt(file_diffs, file_info))]

\* final_review
FinalReview(overview, sections, n_important, n_files) ==
    [kind |-> "chunked", overview |-> overview, sections |-> sections,
     n_important |-> n_important, n_files |-> n_files]

TaskDone(i) == tasks[i] \in {"ok", "failed", "none"}

\* a review that goes on to the files whatever the overview call came to
OverviewReturned_Ignored(r) == TRUE

\* overview_analysis = call_llm_api(...): the statement completes when the
\* call returns; LLMAPIError leaves review_large_diff_in_chunks
OverviewReturned(r) == r.ok

\* the overview call and the ranking of the files
ChunkOverview ==
    /\ pc = "chunk_overview"
    /\ llm_calls' = [llm_calls EXCEPT !.overview = @ + 1]
    /\ \E resp \in LLMResponses :
          LET r == call_llm_api(OverviewPrompt(commit_info), resp)
          IN IF OverviewReturned(r)
             THEN /\ overview_analysis' = r.text
                  /\ important_files' = ImportantFiles(commit_info.files)
                  /\ tasks' = [i \in 1..Len(ImportantFiles(commit_info.files)) |-> "new"]
                  /\ pc' = "chunk_submit"
                  /\ UNCHANGED <<rsc_result, llm_failed>>
             ELSE /\ Return("false")
                  /\ llm_failed' = llm_failed + 1
                  /\ UNCHANGED <<overview_analysis, important_files, tasks>>
    /\ UNCHANGED <<env_vars, unit_vars, hist_vars, ENABLED_REPOS, original_enabled_repos, scan_vars,
                   commit_data, commit_info, diff_content, strategy, review_result,
                   chunk_file_diffs, worker, fin_set, fin_seq, detailed_reviews, completed,
                   done_at_call, pauses, late_calls, pub_vars>>

\* executor.submit for the next important file
ChunkSubmit ==
    /\ pc = "chunk_submit"
    /\ \E i \in 1..Len(tasks) :
          /\ tasks[i] = "new"
          /\ \A j \in 1..(i - 1) : tasks[j] # "new"
          /\ tasks' = [tasks EXCEPT ![i] = "queued"]
    /\ UNCHANGED <<env_vars, unit_vars, hist_vars, ENABLED_REPOS, original_enabled_repos, pc, scan_vars,
                   commit_vars, chunk_file_diffs, overview_analysis, important_files, worker, fin_set,
                   fin_seq, detailed_reviews, completed, done_at_call,
                   pauses, late_calls, pub_vars>>

\* as_completed is called: the futures already finished are set apart
ChunkAsCompleted ==
    /\ pc = "chunk_submit"
    /\ \A i \in 1..Len(tasks) : tasks[i] # "new"
    /\ fin_set' = { i \in 1..Len(tasks) : TaskDone(i) }
    /\ done_at_call' = Len(completed)
    /\ pc' = "chunk_collect"
    /\ UNCHANGED <<env_vars, unit_vars, hist_vars, ENABLED_REPOS, original_enabled_repos, scan_vars,
                   commit_vars, chunk_file_diffs, overview_analysis, important_files, tasks, worker,
                   fin_seq, detailed_reviews, completed, pauses, late_calls, pub_vars>>

\* a pool thread takes the oldest queued work item; review_single_file calls
\* the LLM when the file has a segment
\* (the threads are interchangeable: the idle one of lowest number takes it)
WorkerTake(w) ==
    /\ worker[w] = 0
    /\ \A v \in 1..(w - 1) : worker[v] # 0
    /\ \E i \in 1..Len(tasks) :
          /\ tasks[i] = "queued"
          /\ \A j \in 1..(i - 1) : tasks[j] # "queued"
          /\ tasks' = [tasks EXCEPT ![i] = "running"]
          /\ worker' = [worker EXCEPT ![w] = i]
          /\ llm_calls' =
                IF NeedsLLM(chunk_file_diffs, important_files[i])
                THEN [llm_calls EXCEPT !.file = @ + 1]
                ELSE llm_calls
          /\ late_calls' =
                IF pc = "chunk_shutdown" /\ NeedsLLM(chunk_file_diffs, important_files[i])
                THEN late_calls + 1
                ELSE late_calls
    /\ UNCHANGED <<env_vars, unit_vars, hist_vars, ENABLED_REPOS, original_enabled_repos, pc, scan_vars,
                   commit_data, commit_info, diff_content, strategy, review_result,
                   rsc_result, llm_failed, chunk_file_diffs, overview_analysis, important_files, fin_set,
                   fin_seq, detailed_reviews, completed, done_at_call,
                   pauses, pub_vars>>

\* review_single_file ends in a pool thread: with a section, with None when
\* the file has no segment, or with LLMAPIError
WorkerFinish(w) ==
    /\ worker[w] # 0
    /\ LET i == worker[w]
       IN /\ \E resp \in LLMResponses :
                LET outcome ==
                        IF ~NeedsLLM(chunk_file_diffs, important_files[i]) THEN "none"
                        ELSE IF call_llm_api(FilePrompt(chunk_file_diffs, important_files[i]),
                                             resp).ok
                        THEN "ok" ELSE "failed"
                IN /\ tasks' = [tasks EXCEPT ![i] = outcome]
                   /\ llm_failed' = IF outcome = "failed" THEN llm_failed + 1
                                     ELSE llm_failed
          /\ fin_seq' = IF pc = "chunk_collect" THEN Append(fin_seq, i) ELSE fin_seq
    /\ completed' = IF pc = "chunk_shutdown" THEN completed
                    ELSE Append(completed, worker[w])
    /\ worker' = [worker EXCEPT ![w] = 0]
    /\ UNCHANGED <<env_vars, unit_vars, hist_vars, ENABLED_REPOS, original_enabled_repos, pc, scan_vars,
                   commit_data, commit_info, diff_content, strategy, review_result,
                   rsc_result, llm_calls, chunk_file_diffs, overview_analysis, important_files, fin_set,
                   detailed_reviews, done_at_call, pauses, late_calls,
                   pub_vars>>

\* an iterator that yields the finished futures in any order
NextYield_AnyFinished == fin_set \cup Elems(fin_seq)

\* the next future as_completed yields: one of those finished when it was
\* called, then the others as they finish
NextYield ==
    IF fin_set # {} THEN fin_set
    ELSE IF fin_seq # <<>> THEN {Head(fin_seq)} ELSE {}

\* a loop body that takes an absent result for a failure
CollectOutcome_NoneRaises(status) ==
    CASE status = "ok" -> "append"
      [] OTHER -> "raise"

\* a loop body that passes over a failed future
CollectOutcome_Swallow(status) ==
    CASE status = "ok" -> "append"
      [] OTHER -> "skip"

\* what the loop body does with a finished future: result() raises the
\* task's exception, a section is appended, None is passed over
CollectOutcome(status) ==
    CASE status = "failed" -> "raise"
      [] status = "ok" -> "append"
      [] OTHER -> "skip"

\* a loop body that sleeps only after appending a section
PauseAfter_SectionOnly(outcome) == outcome = "append"

\* time.sleep(0.5) ends the loop body: it is reached unless result() raised
PauseAfter(outcome) == outcome # "raise"

\* one pass of the loop over as_completed: future.result(), the append and
\* the sleep
ChunkCollect ==
    /\ pc = "chunk_collect"
    /\ \E i \in NextYield :
          /\ fin_set' = fin_set \ {i}
          /\ fin_seq' = IF fin_set # {} THEN fin_seq ELSE Tail(fin_seq)
          /\ pauses' = IF PauseAfter(CollectOutcome(tasks[i])) THEN pauses + 1
                        ELSE pauses
          /\ IF CollectOutcome(tasks[i]) = "raise"
             THEN /\ pc' = "chunk_shutdown"
                  /\ completed' = <<>>
                  /\ done_at_call' = 0
                  /\ UNCHANGED detailed_reviews
             ELSE /\ detailed_reviews' =
                        IF CollectOutcome(tasks[i]) = "append"
                        THEN Append(detailed_reviews,
                                    FileSection(chunk_file_diffs,
                                                important_files[i]))
                        ELSE detailed_reviews
                  /\ UNCHANGED <<pc, completed, done_at_call>>
    /\ UNCHANGED <<env_vars, unit_vars, hist_vars, ENABLED_REPOS, original_enabled_repos, scan_vars,
                   commit_vars, chunk_file_diffs, overview_analysis, important_files, tasks, worker,
                   late_calls, pub_vars>>

\* every future was collected: the pool is left and the report assembled
ChunkAssemble ==
    /\ pc = "chunk_collect"
    /\ \A i \in 1..Len(tasks) : TaskDone(i)
    /\ fin_set = {} /\ fin_seq = <<>>
    /\ review_result' = FinalReview(overview_analysis, detailed_reviews,
                                    Len(important_files), Len(commit_info.files))
    /\ completed' = <<>>
    /\ done_at_call' = 0
    /\ issue_calls' = issue_calls + 1
    /\ pc' = "pub_info"
    /\ UNCHANGED <<env_vars, unit_vars, hist_vars, ENABLED_REPOS, original_enabled_repos, scan_vars,
                   commit_data, commit_info, diff_content, strategy, rsc_result,
                   llm_calls, llm_failed, chunk_file_diffs, overview_analysis, important_files, tasks,
                   worker, fin_set, fin_seq, detailed_reviews, pauses, late_calls, attempt, responses, backoffs,
                   stdout_report>>

\* an executor left without waiting for its threads
PoolDrained_NoWait == TRUE

\* ThreadPoolExecutor.__exit__ is shutdown(wait=True): it returns when every
\* submitted work item has run to its end; none is cancelled
PoolDrained == \A i \in 1..Len(tasks) : TaskDone(i)

\* future.result() raised LLMAPIError: leaving the with block waits for the
\* pool, then review_single_commit catches the error
ChunkShutdown ==
    /\ pc = "chunk_shutdown"
    /\ PoolDrained
    /\ Return("false")
    /\ UNCHANGED <<env_vars, unit_vars, hist_vars, ENABLED_REPOS, original_enabled_repos, scan_vars,
                   commit_data, commit_info, diff_content, strategy, review_result,
                   llm_calls, llm_failed, chunk_vars, pub_vars>>


(***************************************************************************)
(* create_review_issue                                                     *)
(***************************************************************************)
\* the metadata fetch for the title and the body
PublishInfo ==
    /\ pc = "pub_info"
    /\ \E resp \in InfoResponses :
          IF get_commit_info(resp).raised
          THEN Return("raised")
          ELSE pc' = "pub_post" /\ UNCHANGED rsc_result
    /\ UNCHANGED <<env_vars, unit_vars, hist_vars, ENABLED_REPOS, original_enabled_repos, scan_vars,
                   commit_data, commit_info, diff_content, strategy, review_result,
                   llm_calls, llm_failed, chunk_vars, pub_vars>>

\* a fallback that prints the banner without the report
ConsoleFallback_BannerOnly(review_content) == None

\* the console fallback prints the report it was given
ConsoleFallback(review_content) == review_content

\* a loop that goes round once more
MoreAttempts_OneMore(n) == n < max_retries

\* a loop that goes round until an attempt is answered for good
MoreAttempts_Unbounded(n) == TRUE

\* if attempt < max_retries - 1: sleep and continue; range(max_retries) ends
\* the loop after that
MoreAttempts(n) == n < max_retries - 1

\* one pass of the retry loop: the POST, the handling of its answer, the
\* backoff before the next pass, and after the last pass the console fallback
PublishAttempt ==
    /\ pc = "pub_post"
    /\ \E resp \in IssueResponses :
          /\ responses' = Append(responses, resp)
          /\ CASE IssueAttempt(resp) = "return_true" ->
                    /\ Return("true")
                    /\ UNCHANGED <<attempt, backoffs, stdout_report>>
               [] IssueAttempt(resp) = "return_false" ->
                    /\ Return("false")
                    /\ UNCHANGED <<attempt, backoffs, stdout_report>>
               [] OTHER ->
                    IF MoreAttempts(attempt)
                    THEN /\ backoffs' = Append(backoffs, Pow2(attempt))
                         /\ attempt' = attempt + 1
                         /\ UNCHANGED <<pc, rsc_result, stdout_report>>
                    ELSE /\ stdout_report' = ConsoleFallback(review_result)
                         /\ Return("false")
                         /\ UNCHANGED <<attempt, backoffs>>
    /\ UNCHANGED <<env_vars, unit_vars, hist_vars, ENABLED_REPOS, original_enabled_repos, scan_vars,
                   commit_data, commit_info, diff_content, strategy, review_result,
                   llm_calls, llm_failed, chunk_vars, issue_calls>>

(***************************************************************************)
(* The program.                                                            *)
(***************************************************************************)
Next ==
    \/ Main
    \/ ScanToken
    \/ ScanStart
    \/ ScanList
    \/ ScanSearch
    \/ ScanQueue
    \/ MainLoop
    \/ AfterReview
    \/ GetInfo
    \/ GetDiff
    \/ FullReview
    \/ ChunkOverview
    \/ ChunkSubmit
    \/ ChunkAsCompleted
    \/ \E w \in Workers : WorkerTake(w)
    \/ \E w \in Workers : WorkerFinish(w)
    \/ ChunkCollect
    \/ ChunkAssemble
    \/ ChunkShutdown
    \/ PublishInfo
    \/ PublishAttempt

Spec == Init /\ [][Next]_vars

\* the main thread and the pool threads keep running, and every external
\* call returns or fails: a step that can be taken is taken
Fairness == WF_vars(Next)

SpecFair == Init /\ [][Next]_vars /\ Fairness


(***************************************************************************)
(* The functions on their own: one call of a function on an argument drawn *)
(* from a bounded set.                                                     *)
(***************************************************************************)
\* the lines a diff text is made of here: the marker of a.py and of b.py, a
\* marker whose text after ' b/' is empty, a marker without ' b/', and a
\* content line
LineKinds ==
    { MarkerLine(CodeName(1)), MarkerLine(CodeName(2)),
      <<"diff --git", " a/", "a", ".py", " b/">>,
      <<"diff --git", " a/", "a", ".py">>,
      <<"+x">> }

\* the texts of up to MaxLines lines
UnitDiffs == UNION { [1..n -> LineKinds] : n \in 1..MaxLines }

\* the names a changed file may have: code, a document by its extension, and
\* a file under the documentation path
NameKinds(i) == { CodeName(i), <<Letter[i], ".md">>, <<"docs/">> \o CodeName(i) }

\* metadata with up to MaxFiles files of any mix of names
UnitSkipInfos ==
    UNION { { [parents |-> p,
               files |-> [i \in 1..n |-> [filename |-> names[i],
                                          additions |-> Additions(i),
                                          deletions |-> Deletions(i)]]] :
                 names \in { f \in [1..n -> UNION { NameKinds(i) : i \in 1..n }] :
                               \A i \in 1..n : f[i] \in NameKinds(i) },
                 p \in 1..(MERGE_PARENTS + 1) } :
            n \in 0..MaxFiles }

\* file lists of up to MaxRanked files with additions of 0 to 2 lines each
UnitRankFiles ==
    UNION { { [i \in 1..n |-> [filename |-> CodeName(i), additions |-> adds[i],
                               deletions |-> Deletions(i)]] :
                 adds \in [1..n -> 0..2] } :
            n \in 0..MaxRanked }

\* what the completion endpoint may answer, a success whose first choice
\* carries a null content included
UnitLLMResponses == LLMResponses \cup {"null_content"}

InitUnits ==
    /\ SCAN_HOURS = FALSE
    /\ GITHUB_REPOSITORY = NoRepo
    /\ ENABLED_REPOS = <<>>
    /\ config_enabled_repos = <<>>
    /\ token_resp = None
    /\ token_ok = "none"
    /\ started = <<>>
    /\ paced = FALSE
    /\ original_enabled_repos = <<>>
    /\ pc = "unit"
    /\ scan_repos = <<>>
    /\ listed = <<>>
    /\ search_resp = None
    /\ reviewed = FALSE
    /\ pending_reviews = <<>>
    /\ next_review = 0
    /\ successful_reviews = 0
    /\ not_reviewed = {}
    /\ commit_data = None
    /\ CommitReset
    /\ unit_done = FALSE
    /\ unit_out = None
    /\ \/ unit_fn = "partition" /\ unit_in \in UnitDiffs
       \/ unit_fn = "skip" /\ unit_in \in UnitSkipInfos
       \/ unit_fn = "rank" /\ unit_in \in UnitRankFiles
       \/ unit_fn = "llm" /\ unit_in \in UnitLLMResponses

\* the frame of a call of a function on its own
UnitCall(fn) ==
    /\ pc = "unit"
    /\ unit_fn = fn
    /\ ~unit_done
    /\ unit_done' = TRUE
    /\ UNCHANGED <<env_vars, hist_vars, unit_fn, unit_in, ENABLED_REPOS,
                   original_enabled_repos, pc, scan_vars, commit_vars, chunk_vars,
                   pub_vars>>

\* the partition of review_large_diff_in_chunks
ApplyPartition == UnitCall("partition") /\ unit_out' = GroupByFile(unit_in)

\* should_skip_review
ApplySkip == UnitCall("skip") /\ unit_out' = should_skip_review(unit_in)

\* the ranking of review_large_diff_in_chunks
ApplyRank == UnitCall("rank") /\ unit_out' = ImportantFiles(unit_in)

\* call_llm_api
ApplyLLM == UnitCall("llm") /\ unit_out' = call_llm_api([kind |-> "unit"], unit_in)

NextUnits ==
    \/ ApplyPartition
    \/ ApplySkip
    \/ ApplyRank
    \/ ApplyLLM

SpecUnits == InitUnits /\ [][NextUnits]_vars


(***************************************************************************)
(* Properties.                                                             *)
(***************************************************************************)
\* the pipeline positions inside review_large_diff_in_chunks
ChunkedPositions == {"chunk_overview", "chunk_submit", "chunk_collect", "chunk_shutdown"}

\* the per-file LLM calls in flight: the pool threads running a task whose
\* file has a segment
InFlight ==
    { w \in Workers :
        /\ worker[w] # 0
        /\ NeedsLLM(GroupByFile(diff_content), important_files[worker[w]]) }

\* the k-th answer to an issue creation was a failure other than a 403
NonForbiddenFailure(k) == responses[k].kind \in {"transport", "other"}

\* create_review_issue was called and has returned False
PublishReturnedFalse == pc = "rsc_ret" /\ rsc_result = "false" /\ issue_calls > 0

\* C1: the strategy follows from the length of the diff alone: a diff longer
\* than LARGE_DIFF_THRESHOLD is reviewed in chunks and never put into a
\* full-review prompt, a diff of at most the threshold is reviewed in full.
C1_StrategyByLength ==
    /\ strategy = "full" => TextLen(diff_content) <= LARGE_DIFF_THRESHOLD
    /\ strategy = "chunked" => TextLen(diff_content) > LARGE_DIFF_THRESHOLD
    /\ (llm_calls.full > 0 \/ pc = "full_llm") =>
          /\ strategy = "full"
          /\ TextLen(diff_content) <= LARGE_DIFF_THRESHOLD
          /\ llm_calls.overview = 0 /\ llm_calls.file = 0
    /\ (llm_calls.overview > 0 \/ llm_calls.file > 0 \/ pc \in ChunkedPositions) =>
          /\ strategy = "chunked"
          /\ TextLen(diff_content) > LARGE_DIFF_THRESHOLD
          /\ llm_calls.full = 0

\* a diff of exactly the threshold was sent as one full-review prompt
C1_Witness ==
    /\ TextLen(diff_content) = LARGE_DIFF_THRESHOLD
    /\ strategy = "full"
    /\ llm_calls.full = 1

\* C2: a commit with more than one parent is skipped whatever files it
\* changes, and review_single_commit returns without an LLM call and without
\* an issue creation.
C2_MergeNeverReviewed ==
    /\ \A info \in CommitInfos : info.parents > 1 => should_skip_review(info)
    /\ (commit_info # None /\ commit_info.parents > 1) =>
          /\ pc = "rsc_ret"
          /\ rsc_result = "true"
          /\ strategy = "none"
          /\ llm_calls = NoCalls
          /\ issue_calls = 0

\* a merge commit that changes a file the policy would review was skipped
C2_Witness ==
    /\ commit_info # None
    /\ commit_info.parents > 1
    /\ \E i \in 1..Len(commit_info.files) : ~IgnoredFile(commit_info.files[i].filename)
    /\ pc = "rsc_ret"
    /\ rsc_result = "true"

\* C3: when any LLM call of a commit's review fails (the full-review call,
\* the overview call or a per-file call), review_single_commit returns False
\* and create_review_issue is not called, also when other per-file calls had
\* succeeded; a chunked report that is published has the section of every
\* important file that has a segment.
C3_AllOrNothing ==
    /\ llm_failed > 0 =>
          /\ issue_calls = 0
          /\ review_result = None
          /\ pc \in {"chunk_submit", "chunk_collect", "chunk_shutdown", "rsc_ret"}
          /\ pc = "rsc_ret" => rsc_result = "false"
    /\ (issue_calls > 0 /\ strategy = "chunked") =>
          LET file_diffs == GroupByFile(diff_content)
              due == { i \in 1..Len(important_files) :
                         NeedsLLM(file_diffs, important_files[i]) }
          IN /\ review_result.sections = detailed_reviews
             /\ Len(detailed_reviews) = Cardinality(due)
             /\ \A i \in due :
                   \E k \in 1..Len(detailed_reviews) :
                      detailed_reviews[k] = FileSection(file_diffs, important_files[i])

\* a per-file call failed after another file's section had been collected,
\* and the review of the commit ended with failure and nothing published
C3_Witness ==
    /\ pc = "rsc_ret"
    /\ rsc_result = "false"
    /\ llm_failed > 0
    /\ detailed_reviews # <<>>
    /\ \E i \in 1..Len(tasks) : tasks[i] = "failed"
    /\ issue_calls = 0

\* the k-th answer to an issue creation was a 403 whose body parsed
RefusedWithBody(k) == responses[k].kind = "forbidden" /\ responses[k].json

\* C4 (as stated): whenever a report was generated and create_review_issue
\* returns failure, the full report has been written to standard output.
C4_ReportNeverLost ==
    PublishReturnedFalse => (stdout_report = review_result /\ review_result # None)

\* C4 (amended): when create_review_issue returns failure after its attempts
\* are used up, the full report has been written to standard output; when it
\* returns failure on a 403 whose body parsed, nothing of the report has been
\* written.
C4_ReportOnExhaustion ==
    /\ (PublishReturnedFalse /\ ~RefusedWithBody(Len(responses))) =>
          /\ stdout_report = review_result
          /\ review_result # None
          /\ Len(responses) = 3
    /\ (PublishReturnedFalse /\ RefusedWithBody(Len(responses))) =>
          stdout_report = None
    /\ stdout_report # None => PublishReturnedFalse

\* the attempts were used up and the report was printed
C4_Witness ==
    /\ PublishReturnedFalse
    /\ Len(responses) = 3
    /\ ~RefusedWithBody(3)
    /\ review_result # None
    /\ stdout_report = review_result

C6_ThreeFailuresFallBack ==
    /\ (\A k \in 1..Len(responses) : NonForbiddenFailure(k)) => Len(responses) <= 3
    /\ (Len(responses) = 3 /\ \A k \in 1..3 : NonForbiddenFailure(k)) =>
          /\ pc = "rsc_ret"
          /\ rsc_result = "false"
          /\ review_result # None
          /\ stdout_report = review_result

\* a status, a transport error and a status again: the report was printed
C6_Witness ==
    /\ Len(responses) = 3
    /\ responses[1].kind = "other"
    /\ responses[2].kind = "transport"
    /\ responses[3].kind = "other"
    /\ pc = "rsc_ret"
    /\ rsc_result = "false"
    /\ stdout_report = review_result

\* C7 (as stated): a 403 answer to an issue creation is terminal: whichever
\* attempt receives it, create_review_issue returns False at once, with no
\* further attempt and no backoff after it.
C7_ForbiddenIsTerminal ==
    \A k \in 1..Len(responses) :
       responses[k].kind = "forbidden" =>
          /\ Len(responses) = k
          /\ Len(backoffs) = k - 1
          /\ pc = "rsc_ret"
          /\ rsc_result = "false"

\* C8: during the chunked review of a commit at most 2 per-file LLM calls
\* are in flight, whatever the number of important files and the order in
\* which the pool threads run.
C8_AtMostTwoInFlight ==
    /\ Cardinality(InFlight) <= 2
    /\ llm_calls.file
          - Cardinality({ i \in 1..Len(tasks) : tasks[i] \in {"ok", "failed"} }) <= 2

\* two per-file calls in flight while a third file waits in the pool's queue
C8_Witness ==
    /\ Cardinality(InFlight) = 2
    /\ \E i \in 1..Len(tasks) :
          /\ tasks[i] = "queued"
          /\ NeedsLLM(GroupByFile(diff_content), important_files[i])

\* C9 (as stated): in both entry modes the lookup of an existing review
\* comes before any LLM call or issue creation for a commit, and only a
\* commit the lookup reported as not reviewed is reviewed or published.
C9_DedupBeforeReview ==
    (llm_calls # NoCalls \/ issue_calls > 0) => commit_data \in not_reviewed

\* C10: has_been_reviewed answers False when the search fails with a status
\* or a transport error, answers True only for a successful search with a
\* match count above 0, and returns to its caller instead of raising.
C10_DedupFailsOpen ==
    /\ search_resp # None => pc = "scan_queue"
    /\ pc = "scan_queue" =>
          /\ search_resp # None
          /\ search_resp.kind \in {"transport", "status"} => ~reviewed
          /\ reviewed => (search_resp.kind = "ok" /\ search_resp.total_count > 0)

\* the search raised a transport error and the lookup answered False
C10_Witness ==
    /\ pc = "scan_queue"
    /\ search_resp.kind = "transport"
    /\ ~reviewed

\* the main thread is inside review_single_commit
InPipeline ==
    pc \in {"rsc_info", "rsc_diff", "full_llm", "chunk_overview", "chunk_submit",
            "chunk_collect", "chunk_shutdown", "pub_info", "pub_post", "rsc_ret"}

\* the main thread is inside scan_all_enabled_repos
InScan == pc \in {"scan_token", "scan_start", "scan_list", "scan_dedup", "scan_queue"}

\* C11: in scheduled mode ProjectConfig.ENABLED_REPOS is, on every way out of
\* main (nothing left to scan, empty queue, completion, an exception out of
\* the scan, reviews that raised), the list it was before the scan, and the
\* original list object never changes its content.
C11_EnabledReposRestored ==
    ~PushMode =>
       /\ original_enabled_repos \in {<<>>, config_enabled_repos}
       /\ pc \in {"main", "done", "crashed"} => ENABLED_REPOS = config_enabled_repos
       /\ (InScan \/ InPipeline \/ pc = "loop") =>
             /\ original_enabled_repos = config_enabled_repos
             /\ ENABLED_REPOS = Remove(config_enabled_repos, GITHUB_REPOSITORY)

\* a scheduled run that took its own repository out of the list, reviewed a
\* commit of another one and ended with the list restored
C11_Witness ==
    /\ ~PushMode
    /\ pc = "done"
    /\ started # <<>>
    /\ Remove(config_enabled_repos, GITHUB_REPOSITORY) # config_enabled_repos
    /\ original_enabled_repos = config_enabled_repos
    /\ ENABLED_REPOS = config_enabled_repos

\* C12: in scan mode every queued commit is attempted once, in queue order,
\* whatever the earlier commits ended with (a failure result or an exception
\* out of the pipeline): the reviews started are the queue up to the entry in
\* hand, all of it at the end, and no review ends the run.
C12_EveryQueuedCommitAttempted ==
    ~PushMode =>
       /\ InPipeline =>
             /\ next_review \in 1..Len(pending_reviews)
             /\ commit_data = pending_reviews[next_review]
             /\ started = SubSeq(pending_reviews, 1, next_review)
       /\ pc = "loop" => started = SubSeq(pending_reviews, 1, next_review - 1)
       /\ pc = "done" => started = pending_reviews
       /\ pc = "crashed" => started = <<>>

\* the second queued commit is attempted after the first one did not succeed
C12_Witness ==
    /\ ~PushMode
    /\ pc = "rsc_info"
    /\ next_review = 2
    /\ successful_reviews = 0
    /\ started = pending_reviews

\* C13 (as stated): in scheduled mode the pipeline of a commit starts only
\* after the pipeline of the commit before it has ended and the pacing delay
\* has been slept, whatever way that commit ended.
C13_PacedBetweenCommits ==
    [][(pc = "loop" /\ pc' = "rsc_info" /\ next_review > 1) => paced]_vars

\* the place of a repository in the list the scan goes through
RepoIndex(repo) ==
    LET scanned == Remove(config_enabled_repos, GITHUB_REPOSITORY)
    IN CHOOSE i \in 1..Len(scanned) : scanned[i] = repo

C17_TokenFailureAbortsScan ==
    /\ (/\ pc = "scan_start"
        /\ \/ token_resp.kind \in {"transport", "status"}
           \/ (token_resp.kind = "ok" /\ token_resp.scopes = "other"))
          => token_ok = "failed"
    /\ token_ok = "failed" =>
          /\ pc \in {"scan_start", "done"}
          /\ scan_repos = <<>> /\ listed = <<>>
          /\ search_resp = None /\ not_reviewed = {}
          /\ pending_reviews = <<>>
          /\ started = <<>>
          /\ llm_calls = NoCalls /\ issue_calls = 0

\* the token test failed for a list of named repositories and the run ended
\* with nothing listed, looked up or reviewed
C17_Witness ==
    /\ token_ok = "failed"
    /\ pc = "done"
    /\ "*" \notin Elems(config_enabled_repos)
    /\ pending_reviews = <<>>
    /\ started = <<>>

\* C19: create_review_issue tolerates commit metadata being unavailable:
\* whatever the metadata fetch it makes comes to (a non-success status or a
\* transport error included), the function goes on to the issue creation
\* attempts and does not raise to its caller.
C19_PublisherToleratesMissingInfo ==
    [][pc = "pub_info" => (pc' = "pub_post" /\ rsc_result' # "raised")]_vars

\* the lines of the parsed segments, in order
RECURSIVE JoinSegments(_)
JoinSegments(file_diffs) ==
    IF file_diffs = <<>>
    THEN <<>>
    ELSE Head(file_diffs).fdiff \o JoinSegments(Tail(file_diffs))

\* C14: the per-file partition of a diff is a lossless cover: for every diff
\* text the segments, concatenated in order, are the lines of the input, each
\* exactly once; the lines before the first marker and a section whose parsed
\* filename is empty are kept.
C14_PartitionIsLosslessCover ==
    (unit_fn = "partition" /\ unit_done) => JoinSegments(unit_out) = unit_in

\* C15: for a commit that is not a merge, should_skip_review returns True
\* when every changed file ends with an ignored extension or contains an
\* ignored path, and False when at least one changed file, at any position
\* of the list, matches neither rule.
C15_SkipIffAllFilesIgnored ==
    (unit_fn = "skip" /\ unit_done /\ unit_in.parents <= MERGE_PARENTS) =>
       LET files == unit_in.files
           matches == { i \in 1..Len(files) :
                          \/ \E ext \in IGNORED_EXTENSIONS :
                                EndsWith(files[i].filename, ext)
                          \/ \E pattern \in IGNORED_PATHS :
                                Contains(files[i].filename, pattern) }
       IN /\ matches = 1..Len(files) => unit_out = TRUE
          /\ matches # 1..Len(files) => unit_out = FALSE

\* a list whose first file is a document by extension, whose second file is
\* under the ignored path, and whose last file matches neither rule: no skip
C15_Witness ==
    /\ unit_fn = "skip" /\ unit_done
    /\ unit_in.parents = MERGE_PARENTS
    /\ Len(unit_in.files) = 3
    /\ unit_in.files[1].filename = <<Letter[1], ".md">>
    /\ unit_in.files[2].filename = <<"docs/">> \o CodeName(2)
    /\ unit_in.files[3].filename = CodeName(3)
    /\ unit_out = FALSE

\* C18: the important files are the first min(max_files_detail, number of
\* changed files) entries of the changed files ranked by additions +
\* deletions in descending order, files of equal churn in their listing
\* order: the selection is without repetition, and every file left out has a
\* churn no larger than every selected file (and is listed after the selected
\* files of its own churn).
C18_ImportantFilesAreTopByChurn ==
    (unit_fn = "rank" /\ unit_done) =>
       LET files == unit_in
           k == IF Len(files) < MAX_FILES_DETAIL THEN Len(files) ELSE MAX_FILES_DETAIL
           total(f) == f.additions + f.deletions
           \* filenames are distinct: the listing position of a selected file
           at(r) == CHOOSE i \in 1..Len(files) : files[i].filename = unit_out[r].filename
           chosen == { at(r) : r \in 1..Len(unit_out) }
       IN /\ Len(unit_out) = k
          /\ \A r \in 1..k : unit_out[r] = files[at(r)]
          /\ \A r, q \in 1..k :
                r < q =>
                   \/ total(unit_out[r]) > total(unit_out[q])
                   \/ total(unit_out[r]) = total(unit_out[q]) /\ at(r) < at(q)
          /\ \A j \in (1..Len(files)) \ chosen :
                \A r \in 1..k :
                   \/ total(files[j]) < total(unit_out[r])
                   \/ total(files[j]) = total(unit_out[r]) /\ at(r) < j

\* five files of churn 1, 2, 3, 2, 3: the third, the fifth and the second
\* are selected in that order, the fourth (tied with the second) is left out
C18_Witness ==
    /\ unit_fn = "rank" /\ unit_done
    /\ Len(unit_in) = 5
    /\ [i \in 1..5 |-> unit_in[i].additions + unit_in[i].deletions] = <<1, 2, 3, 2, 3>>
    /\ unit_out = <<unit_in[3], unit_in[5], unit_in[2]>>

\* C20: call_llm_api has two outcomes: it returns the generated text of a
\* success response that carries a choice, or it raises LLMAPIError; a
\* non-success status, a success without choices or with a malformed body,
\* and a transport failure raise LLMAPIError, and no absent value reaches
\* the caller.
C20_TextOrLLMAPIError ==
    (unit_fn = "llm" /\ unit_done) =>
       /\ unit_in \in {"status", "no_choices", "bad_body", "transport"} => ~unit_out.ok
       /\ unit_out.ok => unit_out.text # None

\* C21: the full strategy makes exactly one LLM call per commit; the prompt
\* of that call embeds the first min(len(diff), max_diff_size) characters of
\* the diff and carries the truncation note if and only if the diff is longer
\* than max_diff_size; the text that call returns is the report given to
\* create_review_issue.
C21_FullStrategyOneCall ==
    strategy = "full" =>
       LET len == TextLen(diff_content)
           prompt == [kind |-> "full",
                      shown |-> IF len < MAX_DIFF_SIZE THEN len ELSE MAX_DIFF_SIZE,
                      note |-> len > MAX_DIFF_SIZE]
       IN /\ llm_calls.overview = 0 /\ llm_calls.file = 0
          /\ llm_calls.full = IF pc = "full_llm" THEN 0 ELSE 1
          /\ issue_calls > 0 =>
                /\ issue_calls = 1
                /\ review_result = Reply(prompt)
          /\ stdout_report # None => stdout_report = Reply(prompt)

\* a diff longer than max_diff_size reviewed by the full strategy: the report
\* of the single call, made on a truncated prompt with the note, is with the
\* publisher
C21_Witness ==
    /\ strategy = "full"
    /\ pc = "pub_post"
    /\ TextLen(diff_content) > MAX_DIFF_SIZE
    /\ llm_calls = [full |-> 1, overview |-> 0, file |-> 0]
    /\ review_result.reply_to.shown = MAX_DIFF_SIZE
    /\ review_result.reply_to.note

\* C22: the wildcard is never expanded by the scan: when the list the scan
\* works on contains "*", alone or with named repositories,
\* scan_all_enabled_repos returns an empty queue and the commits of no
\* repository are listed, looked up or reviewed.
C22_WildcardNeverExpanded ==
    (~PushMode /\ "*" \in Elems(Remove(config_enabled_repos, GITHUB_REPOSITORY))) =>
       /\ pc \in {"main", "scan_token", "scan_start", "done"}
       /\ scan_repos = <<>> /\ listed = <<>>
       /\ search_resp = None /\ not_reviewed = {}
       /\ pending_reviews = <<>>
       /\ started = <<>>
       /\ llm_calls = NoCalls /\ issue_calls = 0

\* the wildcard listed after a named repository, the token test passed, and
\* the run over with nothing listed
C22_Witness ==
    /\ ~PushMode
    /\ config_enabled_repos = <<"r1", "*">>
    /\ token_ok = "passed"
    /\ pc = "done"
    /\ pending_reviews = <<>>

\* the futures the loop over as_completed has been through
Collected ==
    { i \in 1..Len(tasks) : TaskDone(i) /\ i \notin fin_set /\ i \notin Elems(fin_seq) }

\* the place of future i in the order of finishing
FinishedAt(i) == CHOOSE r \in 1..Len(completed) : completed[r] = i

\* the important file a section is about (the names of a commit's files differ)
SectionOf(section) ==
    CHOOSE i \in 1..Len(important_files) :
       important_files[i].filename = section.filename

\* the report of a chunked review handed to create_review_issue: the
\* overview, one section for each important file with a segment, none
\* missing and none twice, and the summary block
ChunkedReportComplete ==
    (strategy = "chunked" /\ issue_calls > 0) =>
       LET file_diffs == GroupByFile(diff_content)
           due == { i \in 1..Len(important_files) :
                      HasSegment(file_diffs, important_files[i].filename) }
           sections == review_result.sections
       IN /\ review_result.kind = "chunked"
          /\ review_result.overview = Reply(OverviewPrompt(commit_info))
          /\ Len(sections) = Cardinality(due)
          /\ \A i \in due :
                \E r \in 1..Len(sections) :
                   /\ sections[r] = FileSection(file_diffs, important_files[i])
                   /\ \A q \in 1..Len(sections) :
                         sections[q].filename = important_files[i].filename => q = r
          /\ review_result.n_important = Len(important_files)
          /\ review_result.n_files = Len(commit_info.files)

\* the sections collected so far are those of the futures the loop has been
\* through that returned a section, each once
SectionsOfCollected ==
    /\ \A r \in 1..Len(detailed_reviews) :
          /\ SectionOf(detailed_reviews[r]) \in Collected
          /\ tasks[SectionOf(detailed_reviews[r])] = "ok"
          /\ detailed_reviews[r] =
                FileSection(GroupByFile(diff_content),
                            important_files[SectionOf(detailed_reviews[r])])
    /\ Len(detailed_reviews) = Cardinality({ i \in Collected : tasks[i] = "ok" })
    /\ \A r, q \in 1..Len(detailed_reviews) :
          detailed_reviews[r].filename = detailed_reviews[q].filename => r = q

\* C23, as stated: when every LLM call of a chunked review succeeds, the
\* report is the overview, one labeled section for each important file with
\* a segment (none missing, none twice) and the summary block, and the
\* sections stand in the order in which the per-file calls finished.
C23_SectionsInCompletionOrder ==
    /\ ChunkedReportComplete
    /\ (pc = "chunk_collect" /\ llm_failed = 0) =>
          /\ SectionsOfCollected
          /\ \A r, q \in 1..Len(detailed_reviews) :
                r < q => FinishedAt(SectionOf(detailed_reviews[r]))
                            < FinishedAt(SectionOf(detailed_reviews[q]))

\* C23, amended: the same report, the sections of the calls that had
\* finished when as_completed was called standing first, in any order, and
\* the sections of the other calls after them in the order of finishing.
C23_SectionsInCollectionOrder ==
    /\ ChunkedReportComplete
    /\ (pc = "chunk_collect" /\ llm_failed = 0) =>
          /\ SectionsOfCollected
          /\ \A r, q \in 1..Len(detailed_reviews) :
                r < q =>
                   LET i == FinishedAt(SectionOf(detailed_reviews[r]))
                       j == FinishedAt(SectionOf(detailed_reviews[q]))
                   IN i < j \/ (i <= done_at_call /\ j <= done_at_call)

\* three per-file calls succeeded, none of them before as_completed was
\* called; the second finished before the first: the sections stand in the
\* order second, first, third, which is not the order of submission
C23_Witness ==
    /\ pc = "chunk_collect"
    /\ llm_failed = 0
    /\ Len(tasks) = 3 /\ Collected = {1, 2, 3}
    /\ completed = <<2, 1, 3>>
    /\ done_at_call = 0
    /\ Len(detailed_reviews) = 3
    /\ detailed_reviews[1].filename = important_files[2].filename
    /\ detailed_reviews[2].filename = important_files[1].filename

\* C24: in the chunked strategy the overview call is made exactly once and
\* has returned before any per-file work is submitted; when the overview
\* call fails, no per-file LLM call is made for the commit.
C24_OverviewBeforeFiles ==
    strategy = "chunked" =>
       /\ llm_calls.full = 0
       /\ llm_calls.overview = IF pc = "chunk_overview" THEN 0 ELSE 1
       /\ ((\E i \in 1..Len(tasks) : tasks[i] # "new") \/ llm_calls.file > 0) =>
             overview_analysis = Reply(OverviewPrompt(commit_info))
       /\ overview_analysis = None =>
             /\ tasks = <<>>
             /\ llm_calls.file = 0
             /\ \A w \in Workers : worker[w] = 0
             /\ pc \in {"chunk_overview", "rsc_ret"}
             /\ pc = "rsc_ret" => (rsc_result = "false" /\ llm_failed = 1)

\* the overview call of a chunked review was made and failed: the review
\* returned False with no file submitted
C24_Witness ==
    /\ strategy = "chunked"
    /\ pc = "rsc_ret"
    /\ llm_calls = [full |-> 0, overview |-> 1, file |-> 0]
    /\ overview_analysis = None
    /\ Len(commit_info.files) > 0
    /\ tasks = <<>>

\* C25: an important file with no matching diff segment is skipped without
\* failing the review: no LLM call is made for it, it gives no section, the
\* chunked review fails only on a failed LLM call and is otherwise published;
\* the summary block counts every important file, the skipped ones included.
C25_FileWithoutSegmentSkipped ==
    strategy = "chunked" =>
       LET file_diffs == GroupByFile(diff_content)
           missing == { i \in 1..Len(important_files) :
                          ~HasSegment(file_diffs, important_files[i].filename) }
           called == { i \in 1..Len(tasks) : tasks[i] \in {"running", "ok", "failed"} }
       IN /\ \A i \in missing : tasks[i] \in {"new", "queued", "running", "none"}
          /\ llm_calls.file = Cardinality(called \ missing)
          /\ \A i \in missing :
                \A r \in 1..Len(detailed_reviews) :
                   detailed_reviews[r].filename # important_files[i].filename
          /\ pc = "chunk_shutdown" => llm_failed > 0
          /\ (pc = "rsc_ret" /\ llm_failed = 0 /\ tasks # <<>>) => issue_calls = 1
          /\ issue_calls > 0 =>
                /\ \A i \in missing :
                      \A r \in 1..Len(review_result.sections) :
                         review_result.sections[r].filename # important_files[i].filename
                /\ review_result.n_important = Len(important_files)
                /\ Len(review_result.sections) = Len(important_files) - Cardinality(missing)

\* three important files, the diff has a segment for two of them: the report
\* with two sections and a summary counting three files is with the publisher
C25_Witness ==
    /\ strategy = "chunked"
    /\ pc = "pub_post"
    /\ Len(important_files) = 3
    /\ \E i \in 1..3 : /\ ~HasSegment(GroupByFile(diff_content), important_files[i].filename)
                        /\ tasks[i] = "none"
    /\ llm_calls.file = 2
    /\ Len(review_result.sections) = 2
    /\ review_result.n_important = 3

\* C26: the pacing delay of the chunked strategy comes after collection, not
\* before submission: every important file is submitted to the pool before
\* any delay is taken, and one delay follows each collected per-file result,
\* a result that is absent because the file has no segment included.
C26_PauseAfterEachResult ==
    strategy = "chunked" =>
       /\ pc \in {"chunk_overview", "chunk_submit"} => pauses = 0
       /\ pauses > 0 => \A i \in 1..Len(tasks) : tasks[i] # "new"
       /\ pc = "chunk_collect" => pauses = Cardinality(Collected)
       /\ pc = "chunk_shutdown" => pauses < Len(tasks)
       /\ issue_calls > 0 => pauses = Len(important_files)

\* the result of a file without a segment and the section of another file
\* were collected, a delay after each, while a third call is still running
C26_Witness ==
    /\ strategy = "chunked"
    /\ pc = "chunk_collect"
    /\ Len(tasks) = 3
    /\ Cardinality(Collected) = 2
    /\ \E i \in Collected : tasks[i] = "none"
    /\ \E i \in Collected : tasks[i] = "ok"
    /\ \E w \in Workers : worker[w] # 0
    /\ pauses = 2

\* C27: with every external call returning or failing, a call of
\* review_single_commit always ends, with True, with False or with an
\* exception; the publish loop makes at most 3 attempts; and the run, a
\* scheduled scan over its queue included, comes to its end.
C27_PipelineAndScanTerminate ==
    /\ [](Len(responses) <= max_retries /\ attempt < max_retries)
    /\ [](InPipeline => <>(pc = "rsc_ret" /\ rsc_result \in {"true", "false", "raised"}))
    /\ [](pc = "pub_post" => <>(pc = "rsc_ret"))
    /\ <>[](pc \in {"done", "crashed"})

\* a scheduled scan queued two commits, both reviews were started and ended,
\* and the run is over
C27_Witness ==
    /\ ~PushMode
    /\ pc = "done"
    /\ Len(pending_reviews) = 2
    /\ started = pending_reviews

\* C28: in scheduled mode the repository the run is in is left out of the
\* scan: no commit of it is listed, queued, reviewed or published, and when
\* leaving it out leaves no repository, the run ends without a token test
\* and without a scan.
C28_CurrentRepoExcluded ==
    (~PushMode /\ GITHUB_REPOSITORY # NoRepo) =>
       /\ \A i \in 1..Len(listed) :
             listed[i] # MalformedCommit => listed[i].repo # GITHUB_REPOSITORY
       /\ \A i \in 1..Len(pending_reviews) :
             pending_reviews[i].repo # GITHUB_REPOSITORY
       /\ \A i \in 1..Len(started) : started[i].repo # GITHUB_REPOSITORY
       /\ issue_calls > 0 => commit_data.repo # GITHUB_REPOSITORY
       /\ Remove(config_enabled_repos, GITHUB_REPOSITORY) = <<>> =>
             /\ pc \in {"main", "done"}
             /\ token_ok = "none"
             /\ listed = <<>> /\ pending_reviews = <<>> /\ started = <<>>

\* C29: a commit skipped by should_skip_review makes review_single_commit
\* return True with nothing reviewed or published and no diff fetched; in
\* scan mode the success counter goes up by one for each queued commit whose
\* review returned True, the skipped ones included, and for no other, and it
\* never exceeds the length of the queue.
C29_SkippedCountsAsSuccess ==
    /\ [](/\ (pc = "rsc_ret" /\ commit_info # None /\
               (\/ commit_info.parents > MERGE_PARENTS
                \/ "files" \notin DOMAIN commit_info
                \/ \A i \in 1..Len(commit_info.files) :
                      IgnoredFile(commit_info.files[i].filename))) =>
                /\ rsc_result = "true"
                /\ diff_content = EmptyText /\ strategy = "none"
                /\ llm_calls = NoCalls /\ issue_calls = 0
          /\ ~PushMode =>
                /\ successful_reviews <= Len(pending_reviews)
                /\ (next_review > 0 => successful_reviews < next_review))
    /\ [][/\ (pc = "rsc_ret" /\ ~PushMode) =>
                successful_reviews' =
                   successful_reviews + (IF rsc_result = "true" THEN 1 ELSE 0)
          /\ (pc # "rsc_ret" /\ successful_reviews' # successful_reviews) =>
                (successful_reviews' = 0 /\ next_review' = 1)
          /\ pc' = "rsc_diff" =>
                /\ commit_info'.parents <= MERGE_PARENTS
                /\ \E i \in 1..Len(commit_info'.files) :
                      ~IgnoredFile(commit_info'.files[i].filename)]_vars

\* the second commit of a scan's queue changes documentation only: its
\* review has returned True with no diff fetched, no LLM call and no issue,
\* after a first commit that was counted
C29_Witness ==
    /\ ~PushMode
    /\ pc = "rsc_ret"
    /\ next_review = 2 /\ successful_reviews = 1
    /\ commit_info # None
    /\ commit_info.parents = MERGE_PARENTS
    /\ "files" \in DOMAIN commit_info
    /\ Len(commit_info.files) > 0
    /\ \A i \in 1..Len(commit_info.files) : IgnoredFile(commit_info.files[i].filename)
    /\ rsc_result = "true"
    /\ issue_calls = 0

\* C30: a commit of a single parent whose metadata has an empty 'files'
\* list, or no 'files' key, is skipped: once its metadata is held, the
\* review has returned True with no diff fetched, no LLM call and no issue.
C30_NoFilesMeansSkipped ==
    (/\ commit_info # None
     /\ commit_info.parents <= MERGE_PARENTS
     /\ ("files" \in DOMAIN commit_info => commit_info.files = <<>>)) =>
        /\ pc = "rsc_ret"
        /\ rsc_result = "true"
        /\ diff_content = EmptyText
        /\ llm_calls = NoCalls
        /\ issue_calls = 0

\* the review of a commit of one parent and an empty file list has returned
\* True
C30_Witness ==
    /\ pc = "rsc_ret"
    /\ commit_info # None
    /\ commit_info.parents = MERGE_PARENTS
    /\ "files" \in DOMAIN commit_info
    /\ commit_info.files = <<>>
    /\ rsc_result = "true"
    /\ llm_calls = NoCalls

\* C31: in the chunked strategy a failed per-file call cancels no other
\* per-file task. After future.result() has raised, the tasks still queued
\* are run by the pool; review_large_diff_in_chunks hands the failure to its
\* caller only when every submitted task has ended and the threads are idle,
\* with one LLM call made for every file that has a segment, so per-file
\* calls begin after the failure was observed.
C31_FailureWaitsForPool ==
    /\ (pc = "rsc_ret" /\ strategy = "chunked" /\ tasks # <<>>) =>
          /\ \A i \in 1..Len(tasks) : tasks[i] \in {"ok", "none", "failed"}
          /\ \A w \in DOMAIN worker : worker[w] = 0
          /\ llm_calls.file =
                Cardinality({ i \in 1..Len(tasks) : tasks[i] \in {"ok", "failed"} })
    /\ pc = "chunk_shutdown" =>
          /\ \E i \in 1..Len(tasks) : tasks[i] = "failed"
          /\ \A i \in 1..Len(tasks) :
                tasks[i] \in {"queued", "running", "ok", "none", "failed"}
          /\ rsc_result = "none"
    /\ late_calls > 0 =>
          /\ pc \in {"chunk_shutdown", "rsc_ret"}
          /\ late_calls < llm_calls.file
          /\ \E i \in 1..Len(tasks) : tasks[i] = "failed"
          /\ pc = "rsc_ret" => rsc_result = "false"

\* the failure of a chunked review has reached review_single_commit after a
\* per-file call that began once future.result() had raised
C31_Witness ==
    /\ pc = "rsc_ret"
    /\ strategy = "chunked"
    /\ rsc_result = "false"
    /\ late_calls > 0
    /\ llm_calls.file = Len(tasks)
    /\ issue_calls = 0

====
